---- MODULE Spec2Model ----
(***************************************************************************)
(* Model of the cart pricing/state engine of the storefront:               *)
(*   src/src/core/services/cart.service.ts  (CartService)                  *)
(*   src/src/utils/cart-helpers.ts          (pure pricing helpers)         *)
(* and of what is built on it:                                             *)
(*   src/unnamed/part_002                   (CheckoutService)              *)
(*   src/src/Features/checkout, cart        (CheckoutComponent, CartComponent) *)
(*   src/src/core/services/toast.service.ts (ToastService)                 *)
(*                                                                         *)
(* Money is held in integer units of 1/10000 dollar so that a percentage   *)
(* of a cent amount is exact; Math.round is modelled as floor(x + 1/2).    *)
(***************************************************************************)
EXTENDS Integers, Sequences, FiniteSets, TLC

VARIABLES
    cartItems,   \* CartService.cartItems: the lines, in insertion order
    discount,    \* CartService.discount: the attached discount or Null
    cartState,   \* CartService.cartState: the published snapshot
    storage,     \* localStorage: the two keys the service writes
    isBrowser,   \* CartService.isBrowser
    emitted,     \* whether the last call published a snapshot
    op,          \* name of the last method called
    ret,         \* what that call returned
    console,     \* what that call logged last
    broken,      \* localStorage keys whose getItem / setItem throws
    stream,      \* the subject whose subscribers are being called, or "none"
    pending,     \* what the running call still has to do after that delivery
    probe,       \* what a caller noted before a call, to compare afterwards
    orders,        \* localStorage under CheckoutService.ORDERS_KEY
    cartSnapshot,  \* CheckoutService.cartSnapshot
    pendingOrder,  \* CheckoutService.pendingOrder
    subscribed,    \* whether CheckoutComponent.ngOnInit subscribed to the state
    route,         \* the page the router shows
    toasts,        \* ToastService.toasts
    toastCounter,  \* ToastService.toastCounter
    timers         \* ids of the toasts whose setTimeout has not fired yet

vars == <<cartItems, discount, cartState, storage, isBrowser, emitted, op, ret,
          console, broken, stream, pending, probe, orders, cartSnapshot,
          pendingOrder, subscribed, route, toasts, toastCounter, timers>>

----------------------------------------------------------------------------
(* Units and bounds *)

\* units per dollar and per cent
Cent == 100
Dollar == Cent * Cent

\* quantity range explored for the products of the small cart and for the
\* product ordered in bulk, and how far below zero a quantity is followed
MaxSmallQty == 2
MaxBulkQty == 1001
MaxReturnedQty == 1
MaxToasts == 3
MaxOrders == 2

\* CartService configuration (cart.service.ts:63-65); TAX_RATE = 0.10 = 1/10
TAX_RATE_NUM == 1
TAX_RATE_DEN == 10
SHIPPING_COST == 10
FREE_SHIPPING_THRESHOLD == 100

\* setQuantity's range (cart.service.ts:236)
QTY_MIN == 1
QTY_MAX == 999

\* product catalogue handed to addToCart: id -> price in units
Products == {1, 2, 3}
BulkProducts == {4}
Price(p) == CASE p = 1 -> 50 * Dollar
              [] p = 2 -> 20 * Dollar
              [] p = 3 -> 1975 * Cent
              [] p = 4 -> 50 * Dollar

MaxQty(p) == IF p \in BulkProducts THEN MaxBulkQty ELSE MaxSmallQty

\* quantity arguments tried by addToCart and setQuantity
QtyInputs == {0, 1, 2}
BulkQtyInputs == {-1, 0, 1, 10, 999, 1000}

----------------------------------------------------------------------------
(* JavaScript primitives *)

\* Math.round(n / d) for d > 0: the nearest integer, a tie going up
MathRound(n, d) == (2 * n + d) \div (2 * d)

MathMin(a, b) == IF a < b THEN a ELSE b
MathMax(a, b) == IF a > b THEN a ELSE b

\* the amount left unrounded
Round2_Unrounded(x) == x

\* Math.round(x * 100) / 100 on an amount in units
Round2(x) == MathRound(x, Cent) * Cent

\* String.prototype.toUpperCase on the characters the codes are typed with
UpperChar(c) == CASE c = "s" -> "S" [] c = "a" -> "A" [] c = "v" -> "V"
                  [] c = "e" -> "E" [] c = "f" -> "F" [] c = "l" -> "L"
                  [] c = "t" -> "T" [] c = "b" -> "B" [] c = "o" -> "O"
                  [] c = "g" -> "G" [] c = "u" -> "U"
                  [] OTHER -> c
toUpperCase(s) == [i \in 1..Len(s) |-> UpperChar(s[i])]

\* null / undefined
Null == [null |-> TRUE]

\* optional property that is present and truthy (a non-zero number)
Truthy(obj, f) == f \in DOMAIN obj /\ obj[f] # 0

\* JSON.stringify / JSON.parse of plain data, a key never written, and a
\* stored string that JSON.parse rejects
NoBlob == [blob |-> FALSE]
Unparsable == [blob |-> TRUE, garbage |-> TRUE]
JSONstringify(v) == [blob |-> TRUE, json |-> v]
Parses(b) == "json" \in DOMAIN b
JSONparse(b) == b.json

----------------------------------------------------------------------------
(* Discount code table *)

SAVE10 == <<"S", "A", "V", "E", "1", "0">>
FLAT20 == <<"F", "L", "A", "T", "2", "0">>
SAVE20 == <<"S", "A", "V", "E", "2", "0">>

validCodes == {
    [id |-> "1", code |-> SAVE10, type |-> "percentage", value |-> 10,
     applied |-> FALSE],
    [id |-> "2", code |-> FLAT20, type |-> "fixed", value |-> 20,
     minAmount |-> 50, applied |-> FALSE],
    [id |-> "3", code |-> SAVE20, type |-> "percentage", value |-> 20,
     maxDiscount |-> 50, applied |-> FALSE] }

\* the lookup without toUpperCase
validateDiscountCode_CaseSensitive(code) ==
    IF \E d \in validCodes : d.code = code
    THEN CHOOSE d \in validCodes : d.code = code
    ELSE Null

validateDiscountCode(code) ==
    IF \E d \in validCodes : d.code = toUpperCase(code)
    THEN CHOOSE d \in validCodes : d.code = toUpperCase(code)
    ELSE Null

\* codes typed by the user
CodeInputs == { SAVE10,
                <<"s", "a", "v", "e", "1", "0">>,
                FLAT20,
                <<"F", "l", "a", "t", "2", "0">>,
                SAVE20,
                <<"B", "O", "G", "U", "S">> }

----------------------------------------------------------------------------
(* Derived values *)

RECURSIVE getSubtotalFrom(_, _)
getSubtotalFrom(items, i) ==
    IF i > Len(items) THEN 0
    ELSE items[i].price * items[i].quantity + getSubtotalFrom(items, i + 1)
getSubtotal(items) == getSubtotalFrom(items, 1)

RECURSIVE getCartItemCountFrom(_, _)
getCartItemCountFrom(items, i) ==
    IF i > Len(items) THEN 0
    ELSE items[i].quantity + getCartItemCountFrom(items, i + 1)
getCartItemCount(items) == getCartItemCountFrom(items, 1)

\* the percentage taken without its cap
getDiscountAmount_NoCap(items, disc) ==
    IF disc = Null \/ ~disc.applied THEN 0
    ELSE IF disc.type = "percentage"
         THEN (getSubtotal(items) \div Cent) * disc.value
         ELSE disc.value * Dollar

getDiscountAmount(items, disc) ==
    IF disc = Null \/ ~disc.applied THEN 0
    ELSE IF disc.type = "percentage"
         THEN \* subtotal is a whole number of cents, and value percent of a
              \* cent is value units
              LET amount == (getSubtotal(items) \div Cent) * disc.value
              IN IF Truthy(disc, "maxDiscount")
                 THEN MathMin(amount, disc.maxDiscount * Dollar)
                 ELSE amount
         ELSE disc.value * Dollar

calculateTax(amount) ==
    MathRound(amount * TAX_RATE_NUM, TAX_RATE_DEN * Cent) * Cent

calculateShipping_ExclusiveThreshold(subtotal) ==
    IF subtotal > FREE_SHIPPING_THRESHOLD * Dollar THEN 0
    ELSE SHIPPING_COST * Dollar

calculateShipping(subtotal) ==
    IF subtotal >= FREE_SHIPPING_THRESHOLD * Dollar THEN 0
    ELSE SHIPPING_COST * Dollar

\* A line of a snapshot is either an object of its own, made by the spread
\* { ...item, subtotal }, or the store's line object itself; a shared object
\* shows whatever the store's line holds when it is read.
IsShared(line) == "ref" \in DOMAIN line

\* the lines handed out without copying
SnapshotItems_SharedWithStore(items) ==
    [i \in 1..Len(items) |-> [ref |-> items[i].id]]

\* items.map(item => ({ ...item, subtotal: item.price * item.quantity }))
SnapshotItems(items) ==
    [i \in 1..Len(items) |->
        [id |-> items[i].id, price |-> items[i].price,
         quantity |-> items[i].quantity,
         subtotal |-> items[i].price * items[i].quantity]]

\* the tax taken on the raw subtotal
updateCartState_TaxOnSubtotal(items, disc) ==
    LET subtotal == getSubtotal(items)
        discountAmount == getDiscountAmount(items, disc)
        tax == calculateTax(subtotal)
        shipping == calculateShipping(subtotal)
        total == subtotal - discountAmount + tax + shipping
    IN [items |-> SnapshotItems(items),
        subtotal |-> subtotal,
        itemCount |-> getCartItemCount(items),
        discount |-> disc,
        discountAmount |-> discountAmount,
        tax |-> tax,
        shippingCost |-> shipping,
        total |-> Round2(total)]

getEmptyCartState ==
    [items |-> <<>>, subtotal |-> 0, itemCount |-> 0, discount |-> Null,
     discountAmount |-> 0, tax |-> 0, shippingCost |-> 0, total |-> 0]

updateCartState(items, disc) ==
    LET subtotal == getSubtotal(items)
        discountAmount == getDiscountAmount(items, disc)
        tax == calculateTax(subtotal - discountAmount)
        shipping == calculateShipping(subtotal)
        total == subtotal - discountAmount + tax + shipping
    IN [items |-> SnapshotItems(items),
        subtotal |-> subtotal,
        itemCount |-> getCartItemCount(items),
        discount |-> disc,
        discountAmount |-> discountAmount,
        tax |-> tax,
        shippingCost |-> shipping,
        total |-> Round2(total)]

----------------------------------------------------------------------------
(* Persistence *)

STORAGE_KEY == "shopping_cart"
DISCOUNT_KEY == "cart_discount"
StorageKeys == {STORAGE_KEY, DISCOUNT_KEY}

\* setItem throws and the catch logs; the stored string stays
saveCartFails == isBrowser /\ STORAGE_KEY \in broken
saveDiscountFails == isBrowser /\ DISCOUNT_KEY \in broken

saveCart_NeverWrites(st, items) == st

saveCart(st, items) ==
    IF ~isBrowser THEN st
    ELSE IF STORAGE_KEY \in broken THEN st
    ELSE [st EXCEPT ![STORAGE_KEY] = JSONstringify(items)]

saveDiscount(st, disc) ==
    IF ~isBrowser THEN st
    ELSE IF DISCOUNT_KEY \in broken THEN st
    ELSE [st EXCEPT ![DISCOUNT_KEY] = JSONstringify(disc)]

\* what the log shows after saveCart, after saveDiscount, after both
saveCartLog == IF saveCartFails THEN "error: saving cart" ELSE "none"
saveDiscountLog == IF saveDiscountFails THEN "error: saving discount" ELSE "none"
saveBothLog == IF saveDiscountFails THEN "error: saving discount" ELSE saveCartLog

\* getItem or JSON.parse throws inside the try block
ReadThrows(st, key) == key \in broken \/ (st[key].blob /\ ~Parses(st[key]))

\* outcome of a load: the value handed to next(), what was logged, and
\* whether an exception left the method
Loaded(v) == [threw |-> FALSE, value |-> v, logged |-> "none"]
Caught(v, message) == [threw |-> FALSE, value |-> v, logged |-> message]
Escaped(message) == [threw |-> TRUE, value |-> <<>>, logged |-> message]

loadCart_NoCatch(st) ==
    IF ~isBrowser THEN Loaded(<<>>)
    ELSE IF ReadThrows(st, STORAGE_KEY) THEN Escaped("none")
    ELSE IF st[STORAGE_KEY].blob THEN Loaded(JSONparse(st[STORAGE_KEY]))
    ELSE Loaded(<<>>)

loadCart(st) ==
    IF ~isBrowser THEN Loaded(<<>>)
    ELSE IF ReadThrows(st, STORAGE_KEY) THEN Caught(<<>>, "error: loading cart")
    ELSE IF st[STORAGE_KEY].blob THEN Loaded(JSONparse(st[STORAGE_KEY]))
    ELSE Loaded(<<>>)

loadDiscount(st) ==
    IF ~isBrowser THEN Loaded(Null)
    ELSE IF ReadThrows(st, DISCOUNT_KEY)
         THEN Caught(Null, "error: loading discount")
    ELSE IF st[DISCOUNT_KEY].blob THEN Loaded(JSONparse(st[DISCOUNT_KEY]))
    ELSE Loaded(Null)

----------------------------------------------------------------------------
(* Helpers on the line list *)

HasItem(items, p) == \E i \in 1..Len(items) : items[i].id = p
\* Array.prototype.find: index of the first line of product p
FindItem(items, p) == CHOOSE i \in 1..Len(items) :
                          /\ items[i].id = p
                          /\ \A j \in 1..(i - 1) : items[j].id # p

----------------------------------------------------------------------------
(* Operations of CartService *)

\* the call that just returned: its name, its result and its log line
Returned(name, result, logged) ==
    /\ op' = name
    /\ ret' = result
    /\ console' = logged

\* a call that returns before cartState.next
NoChange ==
    /\ emitted' = FALSE
    /\ UNCHANGED <<cartItems, discount, cartState, storage, isBrowser>>

\* no caller is comparing anything
NoProbe == [phase |-> "idle"]

\* no call is running and the surroundings of the service stay as they are;
\* an observer may be holding a snapshot it received earlier
Quiet ==
    /\ stream = "none"
    /\ probe.phase \in {"idle", "holding"}
    /\ UNCHANGED <<broken, stream, pending, probe>>

\* the checkout service, the router and the toasts are left alone
CheckoutAndToastsIdle ==
    UNCHANGED <<orders, cartSnapshot, pendingOrder, subscribed, route, toasts,
                toastCounter, timers>>

\* What a call means outside the cart service. A page load constructs every
\* service anew, and the checkout page, when it is the page loaded, subscribes
\* in ngOnInit; otherwise a published snapshot reaches the subscription that
\* CheckoutComponent.ngOnInit made, which stores it in the checkout service.
Listeners ==
    /\ UNCHANGED <<orders, route>>
    /\ IF op' = "constructor"
       THEN /\ toasts' = <<>>
            /\ toastCounter' = 0
            /\ timers' = {}
            /\ pendingOrder' = Null
            /\ subscribed' = (route = "/checkout")
            /\ cartSnapshot' = IF route = "/checkout" THEN cartState' ELSE Null
       ELSE /\ UNCHANGED <<toasts, toastCounter, timers, pendingOrder, subscribed>>
            /\ cartSnapshot' = IF subscribed /\ emitted' THEN cartState'
                               ELSE cartSnapshot

Init ==
    /\ isBrowser = TRUE
    /\ storage = [k \in StorageKeys |-> NoBlob]
    /\ cartItems = <<>>
    /\ discount = Null
    /\ cartState = updateCartState(<<>>, Null)
    /\ emitted = TRUE
    /\ op = "constructor"
    /\ ret = "void"
    /\ console = "none"
    /\ broken = {}
    /\ stream = "none"
    /\ pending = <<>>
    /\ probe = NoProbe
    /\ orders = NoBlob
    /\ cartSnapshot = Null
    /\ pendingOrder = Null
    /\ subscribed = FALSE
    /\ route = "/home"
    /\ toasts = <<>>
    /\ toastCounter = 0
    /\ timers = {}

\* a new CartService over the same localStorage (page load)
Constructor ==
    LET items == loadCart(storage)
        disc == loadDiscount(storage)
    IN IF items.threw \/ disc.threw
       THEN \* the constructor is left before updateCartState
            /\ cartItems' = <<>>
            /\ discount' = Null
            /\ cartState' = getEmptyCartState
            /\ emitted' = FALSE
            /\ Returned("constructor", "throws",
                        IF items.threw THEN items.logged ELSE disc.logged)
            /\ UNCHANGED <<storage, isBrowser>>
       ELSE /\ cartItems' = items.value
            /\ discount' = disc.value
            /\ cartState' = updateCartState(items.value, disc.value)
            /\ emitted' = TRUE
            /\ Returned("constructor", "void",
                        IF disc.logged # "none" THEN disc.logged ELSE items.logged)
            /\ UNCHANGED <<storage, isBrowser>>

\* cartItems.next(items); saveCart(); updateCartState()
PublishItems_NoRecompute(items) ==
    /\ cartItems' = items
    /\ storage' = saveCart(storage, items)
    /\ emitted' = TRUE
    /\ UNCHANGED <<cartState, discount, isBrowser>>

PublishItems(items) ==
    /\ cartItems' = items
    /\ storage' = saveCart(storage, items)
    /\ cartState' = updateCartState(items, discount)
    /\ emitted' = TRUE
    /\ UNCHANGED <<discount, isBrowser>>

\* discount.next(disc); saveDiscount(); updateCartState()
PublishDiscount(disc) ==
    /\ discount' = disc
    /\ storage' = saveDiscount(storage, disc)
    /\ cartState' = updateCartState(cartItems, disc)
    /\ emitted' = TRUE
    /\ UNCHANGED <<cartItems, isBrowser>>

addToCartItems_AlwaysPushes(items, p, quantity) ==
    Append(items, [id |-> p, price |-> Price(p), quantity |-> quantity])

addToCartItems(items, p, quantity) ==
    IF HasItem(items, p)
    THEN [items EXCEPT ![FindItem(items, p)].quantity = @ + quantity]
    ELSE Append(items, [id |-> p, price |-> Price(p), quantity |-> quantity])

\* the failed write reaches the caller and nothing is published
addToCart_ThrowsOnFailedWrite(p, quantity) ==
    IF saveCartFails
    THEN NoChange /\ Returned("addToCart", "throws", "none")
    ELSE /\ PublishItems(addToCartItems(cartItems, p, quantity))
         /\ Returned("addToCart", "void", "none")

addToCart(p, quantity) ==
    /\ HasItem(cartItems, p) =>
         LET q == cartItems[FindItem(cartItems, p)].quantity + quantity
         IN q >= -MaxReturnedQty /\ q <= MaxQty(p)
    /\ PublishItems(addToCartItems(cartItems, p, quantity))
    /\ Returned("addToCart", "void", saveCartLog)

removeFromCartItems_KeepsOnlyProduct(items, p) ==
    SelectSeq(items, LAMBDA it : it.id = p)

removeFromCartItems(items, p) == SelectSeq(items, LAMBDA it : it.id # p)

removeFromCart(p) ==
    /\ PublishItems(removeFromCartItems(cartItems, p))
    /\ Returned("removeFromCart", "void", saveCartLog)

increaseQuantity(p) ==
    IF HasItem(cartItems, p)
    THEN /\ cartItems[FindItem(cartItems, p)].quantity < MaxQty(p)
         /\ PublishItems([cartItems EXCEPT ![FindItem(cartItems, p)].quantity = @ + 1])
         /\ Returned("increaseQuantity", "void", saveCartLog)
    ELSE /\ NoChange
         /\ Returned("increaseQuantity", "void", "none")

\* the decrement taken whatever the quantity
decreaseQuantityItems_ToZero(items, p) ==
    [items EXCEPT ![FindItem(items, p)].quantity = @ - 1]

decreaseQuantityItems(items, p) ==
    IF items[FindItem(items, p)].quantity > 1
    THEN [items EXCEPT ![FindItem(items, p)].quantity = @ - 1]
    ELSE removeFromCartItems(items, p)

decreaseQuantity(p) ==
    IF HasItem(cartItems, p)
    THEN /\ PublishItems(decreaseQuantityItems(cartItems, p))
         /\ Returned("decreaseQuantity", "void", saveCartLog)
    ELSE /\ NoChange
         /\ Returned("decreaseQuantity", "void", "none")

\* the quantity stored as given
setQuantityItems_Unclamped(items, p, quantity) ==
    [items EXCEPT ![FindItem(items, p)].quantity = quantity]

setQuantityItems(items, p, quantity) ==
    [items EXCEPT ![FindItem(items, p)].quantity =
        MathMax(QTY_MIN, MathMin(quantity, QTY_MAX))]

setQuantity(p, quantity) ==
    IF quantity <= 0
    THEN /\ PublishItems(removeFromCartItems(cartItems, p))
         /\ Returned("setQuantity", "void", saveCartLog)
    ELSE IF HasItem(cartItems, p)
         THEN /\ PublishItems(setQuantityItems(cartItems, p, quantity))
              /\ Returned("setQuantity", "void", saveCartLog)
         ELSE /\ NoChange
              /\ Returned("setQuantity", "void", "none")

clearCart_KeepsDiscount ==
    /\ PublishItems(<<>>)
    /\ Returned("clearCart", "void", saveCartLog)

clearCart ==
    /\ cartItems' = <<>>
    /\ discount' = Null
    /\ storage' = saveDiscount(saveCart(storage, <<>>), Null)
    /\ cartState' = updateCartState(<<>>, Null)
    /\ emitted' = TRUE
    /\ Returned("clearCart", "void", saveBothLog)
    /\ UNCHANGED isBrowser

\* the code attached without the minimum test
applyDiscount_NoMinimumTest(code) ==
    LET validDiscount == validateDiscountCode(code)
    IN IF validDiscount = Null
       THEN /\ NoChange
            /\ Returned("applyDiscount", "false", "none")
       ELSE /\ PublishDiscount([validDiscount EXCEPT !.applied = TRUE])
            /\ Returned("applyDiscount", "true", saveDiscountLog)

applyDiscount(code) ==
    LET validDiscount == validateDiscountCode(code)
    IN IF validDiscount = Null
       THEN /\ NoChange
            /\ Returned("applyDiscount", "false", "none")
       ELSE IF Truthy(validDiscount, "minAmount")
               /\ getSubtotal(cartItems) < validDiscount.minAmount * Dollar
            THEN /\ NoChange
                 /\ Returned("applyDiscount", "false", "warn: minimum cart total")
            ELSE /\ PublishDiscount([validDiscount EXCEPT !.applied = TRUE])
                 /\ Returned("applyDiscount", "true", saveDiscountLog)

removeDiscount_DropsLines ==
    /\ cartItems' = <<>>
    /\ discount' = Null
    /\ storage' = saveDiscount(saveCart(storage, <<>>), Null)
    /\ cartState' = updateCartState(<<>>, Null)
    /\ emitted' = TRUE
    /\ Returned("removeDiscount", "void", saveBothLog)
    /\ UNCHANGED isBrowser

removeDiscount ==
    /\ PublishDiscount(Null)
    /\ Returned("removeDiscount", "void", saveDiscountLog)

\* the calls made from outside while no other call is running
NextOver(P, Q) ==
    \/ Quiet /\ Constructor /\ Listeners
    \/ Quiet /\ \E p \in P : \E q \in Q : addToCart(p, q) /\ Listeners
    \/ Quiet /\ \E p \in P : removeFromCart(p) /\ Listeners
    \/ Quiet /\ \E p \in P : increaseQuantity(p) /\ Listeners
    \/ Quiet /\ \E p \in P : decreaseQuantity(p) /\ Listeners
    \/ Quiet /\ \E p \in P : \E q \in Q : setQuantity(p, q) /\ Listeners
    \/ Quiet /\ clearCart /\ Listeners
    \/ Quiet /\ \E code \in CodeInputs : applyDiscount(code) /\ Listeners
    \/ Quiet /\ removeDiscount /\ Listeners

\* a cart of several products in small quantities
Next == NextOver(Products, QtyInputs)
Spec == Init /\ [][Next]_vars

\* a cart of one product ordered in bulk
NextBulk == NextOver(BulkProducts, BulkQtyInputs)
SpecBulk == Init /\ [][NextBulk]_vars

\* A caller that notes what the getters return, makes two calls in a row and
\* compares: removeFromCart of a product that is not in the cart, twice; or
\* addToCart(P, 2) of a product that is not in the cart and removeFromCart(P).
CallerProducts == {1, 2}

Noted(phase, p) ==
    [phase |-> phase, p |-> p, lines |-> cartItems, discount |-> discount,
     state |-> cartState]

RemoveAbsent(p) ==
    /\ stream = "none"
    /\ probe.phase = "idle"
    /\ ~HasItem(cartItems, p)
    /\ removeFromCart(p)
    /\ probe' = Noted("removedAbsent", p)
    /\ UNCHANGED <<broken, stream, pending>>
    /\ CheckoutAndToastsIdle

RemoveAbsentAgain ==
    /\ probe.phase = "removedAbsent"
    /\ removeFromCart(probe.p)
    /\ probe' = [probe EXCEPT !.phase = "removedAgain"]
    /\ UNCHANGED <<broken, stream, pending>>
    /\ CheckoutAndToastsIdle

AddTwo(p) ==
    /\ stream = "none"
    /\ probe.phase = "idle"
    /\ ~HasItem(cartItems, p)
    /\ addToCart(p, 2)
    /\ probe' = Noted("added", p)
    /\ UNCHANGED <<broken, stream, pending>>
    /\ CheckoutAndToastsIdle

RemoveAdded ==
    /\ probe.phase = "added"
    /\ removeFromCart(probe.p)
    /\ probe' = [probe EXCEPT !.phase = "addedRemoved"]
    /\ UNCHANGED <<broken, stream, pending>>
    /\ CheckoutAndToastsIdle

CallerDone ==
    /\ probe.phase \in {"removedAgain", "addedRemoved"}
    /\ probe' = NoProbe
    /\ UNCHANGED <<cartItems, discount, cartState, storage, isBrowser, emitted,
                   op, ret, console, broken, stream, pending>>
    /\ CheckoutAndToastsIdle

NextCaller ==
    \/ NextOver(CallerProducts, QtyInputs)
    \/ \E p \in CallerProducts : RemoveAbsent(p)
    \/ RemoveAbsentAgain
    \/ \E p \in CallerProducts : AddTwo(p)
    \/ RemoveAdded
    \/ CallerDone
SpecCaller == Init /\ [][NextCaller]_vars

\* A browser whose localStorage can fail: access to a key starts or stops
\* throwing (quota, privacy mode), or the string under a key is overwritten
\* from outside with one that is not JSON.
FaultyProducts == {1}

StorageBreaks(k) ==
    /\ stream = "none"
    /\ probe.phase = "idle"
    /\ k \notin broken
    /\ broken' = broken \cup {k}
    /\ UNCHANGED <<cartItems, discount, cartState, storage, isBrowser, emitted,
                   op, ret, console, stream, pending, probe>>
    /\ CheckoutAndToastsIdle

StorageRecovers(k) ==
    /\ stream = "none"
    /\ probe.phase = "idle"
    /\ k \in broken
    /\ broken' = broken \ {k}
    /\ UNCHANGED <<cartItems, discount, cartState, storage, isBrowser, emitted,
                   op, ret, console, stream, pending, probe>>
    /\ CheckoutAndToastsIdle

StorageTampered(k) ==
    /\ stream = "none"
    /\ probe.phase = "idle"
    /\ storage[k] # Unparsable
    /\ storage' = [storage EXCEPT ![k] = Unparsable]
    /\ UNCHANGED <<cartItems, discount, cartState, isBrowser, emitted,
                   op, ret, console, broken, stream, pending, probe>>
    /\ CheckoutAndToastsIdle

NextFaulty ==
    \/ NextOver(FaultyProducts, QtyInputs)
    \/ \E k \in StorageKeys : StorageBreaks(k)
    \/ \E k \in StorageKeys : StorageRecovers(k)
    \/ \E k \in StorageKeys : StorageTampered(k)
SpecFaulty == Init /\ [][NextFaulty]_vars

\* The same calls seen at each next() they make: a BehaviorSubject calls its
\* subscribers inside next(), so subscribers of the lines run before
\* saveCart and updateCartState, subscribers of the discount before
\* saveDiscount and updateCartState, and subscribers of the state last.
StreamProducts == {1, 2}

\* cartItems.next(items) is calling the subscribers of the lines
NextItems(name, items, rest) ==
    /\ stream = "none"
    /\ probe.phase = "idle"
    /\ cartItems' = items
    /\ stream' = "cartItems"
    /\ pending' = rest
    /\ emitted' = FALSE
    /\ Returned(name, "running", "none")
    /\ UNCHANGED <<discount, cartState, storage, isBrowser, broken, probe>>
    /\ CheckoutAndToastsIdle

\* discount.next(disc) is calling the subscribers of the discount
NextDiscount(name, disc, rest) ==
    /\ stream = "none"
    /\ probe.phase = "idle"
    /\ discount' = disc
    /\ stream' = "discount"
    /\ pending' = rest
    /\ emitted' = FALSE
    /\ Returned(name, "running", "none")
    /\ UNCHANGED <<cartItems, cartState, storage, isBrowser, broken, probe>>
    /\ CheckoutAndToastsIdle

addToCartNext(p, quantity) ==
    /\ HasItem(cartItems, p) =>
         LET q == cartItems[FindItem(cartItems, p)].quantity + quantity
         IN q >= -MaxReturnedQty /\ q <= MaxQty(p)
    /\ NextItems("addToCart", addToCartItems(cartItems, p, quantity),
                 <<"updateCartState", "return void">>)

removeFromCartNext(p) ==
    NextItems("removeFromCart", removeFromCartItems(cartItems, p),
              <<"updateCartState", "return void">>)

increaseQuantityNext(p) ==
    /\ HasItem(cartItems, p)
    /\ cartItems[FindItem(cartItems, p)].quantity < MaxQty(p)
    /\ NextItems("increaseQuantity",
                 [cartItems EXCEPT ![FindItem(cartItems, p)].quantity = @ + 1],
                 <<"updateCartState", "return void">>)

decreaseQuantityNext(p) ==
    /\ HasItem(cartItems, p)
    /\ NextItems("decreaseQuantity", decreaseQuantityItems(cartItems, p),
                 <<"updateCartState", "return void">>)

setQuantityNext(p, quantity) ==
    /\ quantity > 0
    /\ HasItem(cartItems, p)
    /\ NextItems("setQuantity", setQuantityItems(cartItems, p, quantity),
                 <<"updateCartState", "return void">>)

clearCartNext ==
    NextItems("clearCart", <<>>,
              <<"discount.next", "updateCartState", "return void">>)

applyDiscountNext(code) ==
    LET validDiscount == validateDiscountCode(code)
    IN /\ validDiscount # Null
       /\ ~(Truthy(validDiscount, "minAmount")
             /\ getSubtotal(cartItems) < validDiscount.minAmount * Dollar)
       /\ NextDiscount("applyDiscount", [validDiscount EXCEPT !.applied = TRUE],
                       <<"updateCartState", "return true">>)

removeDiscountNext ==
    NextDiscount("removeDiscount", Null, <<"updateCartState", "return void">>)

\* clearCart goes on to discount.next(null)
ClearCartNextDiscount ==
    /\ pending # <<>>
    /\ Head(pending) = "discount.next"
    /\ discount' = Null
    /\ stream' = "discount"
    /\ pending' = Tail(pending)
    /\ UNCHANGED <<cartItems, cartState, storage, isBrowser, emitted, op, ret,
                   console, broken, probe>>
    /\ CheckoutAndToastsIdle

\* the saves of the running call, then updateCartState: cartState.next(state)
\* is calling the subscribers of the state
NextState ==
    /\ pending # <<>>
    /\ Head(pending) = "updateCartState"
    /\ storage' =
          IF op = "clearCart" THEN saveDiscount(saveCart(storage, cartItems), discount)
          ELSE IF op \in {"applyDiscount", "removeDiscount"}
               THEN saveDiscount(storage, discount)
          ELSE saveCart(storage, cartItems)
    /\ console' =
          IF op = "clearCart" THEN saveBothLog
          ELSE IF op \in {"applyDiscount", "removeDiscount"} THEN saveDiscountLog
          ELSE saveCartLog
    /\ cartState' = updateCartState(cartItems, discount)
    /\ emitted' = TRUE
    /\ stream' = "cartState"
    /\ pending' = Tail(pending)
    /\ UNCHANGED <<cartItems, discount, isBrowser, op, ret, broken, probe>>
    /\ CheckoutAndToastsIdle

\* the call returns to its caller
Returns ==
    /\ pending # <<>>
    /\ Head(pending) \in {"return void", "return true"}
    /\ ret' = IF Head(pending) = "return true" THEN "true" ELSE "void"
    /\ stream' = "none"
    /\ pending' = Tail(pending)
    /\ UNCHANGED <<cartItems, discount, cartState, storage, isBrowser, emitted,
                   op, console, broken, probe>>
    /\ CheckoutAndToastsIdle

NextStreams ==
    \/ Quiet /\ Constructor /\ Listeners
    \/ \E p \in StreamProducts : \E q \in QtyInputs : addToCartNext(p, q)
    \/ \E p \in StreamProducts : removeFromCartNext(p)
    \/ \E p \in StreamProducts : increaseQuantityNext(p)
    \/ \E p \in StreamProducts : decreaseQuantityNext(p)
    \/ \E p \in StreamProducts : \E q \in QtyInputs : setQuantityNext(p, q)
    \/ clearCartNext
    \/ \E code \in CodeInputs : applyDiscountNext(code)
    \/ removeDiscountNext
    \/ ClearCartNextDiscount
    \/ NextState
    \/ Returns
SpecStreams == Init /\ [][NextStreams]_vars

\* An observer of the state stream that keeps the snapshot it was given and
\* what it read in it, while the cart goes on being used.
ObserverProducts == {1}

\* what a reader finds in a snapshot's line: the line itself, or the store's
\* line when the object is shared and still in the store
ReadLine(line) ==
    IF IsShared(line)
    THEN IF HasItem(cartItems, line.ref)
         THEN LET item == cartItems[FindItem(cartItems, line.ref)]
              IN [quantity |-> item.quantity,
                  subtotal |-> item.price * item.quantity]
         ELSE [detached |-> TRUE]
    ELSE [quantity |-> line.quantity, subtotal |-> line.subtotal]

ReadSnapshot(state) ==
    [lines |-> [i \in 1..Len(state.items) |-> ReadLine(state.items[i])],
     subtotal |-> state.subtotal, itemCount |-> state.itemCount,
     discountAmount |-> state.discountAmount, tax |-> state.tax,
     shippingCost |-> state.shippingCost, total |-> state.total]

ObserverKeepsSnapshot ==
    /\ stream = "none"
    /\ probe.phase = "idle"
    /\ emitted
    /\ cartState.items # <<>>
    /\ probe' = [phase |-> "holding", state |-> cartState,
                 read |-> ReadSnapshot(cartState)]
    /\ UNCHANGED <<cartItems, discount, cartState, storage, isBrowser, emitted,
                   op, ret, console, broken, stream, pending>>
    /\ CheckoutAndToastsIdle

ObserverDropsSnapshot ==
    /\ probe.phase = "holding"
    /\ probe' = NoProbe
    /\ UNCHANGED <<cartItems, discount, cartState, storage, isBrowser, emitted,
                   op, ret, console, broken, stream, pending>>
    /\ CheckoutAndToastsIdle

NextObserver ==
    \/ NextOver(ObserverProducts, QtyInputs)
    \/ ObserverKeepsSnapshot
    \/ ObserverDropsSnapshot
SpecObserver == Init /\ [][NextObserver]_vars

----------------------------------------------------------------------------
(* ToastService *)

\* the cart service is left alone
CartIdle ==
    UNCHANGED <<cartItems, discount, cartState, storage, isBrowser, emitted,
                broken, stream, pending, probe>>

\* the checkout service and the router are left alone
CheckoutIdle == UNCHANGED <<orders, cartSnapshot, pendingOrder, subscribed, route>>

\* `toast-${n}`
ToastId(n) == "toast-" \o ToString(n)
ToastIds == {ToastId(n) : n \in 1..MaxToasts}

\* durations passed to show, in milliseconds; 0 asks for no auto-dismiss
ToastDurations == {0, 3000}

\* the toast list without the toast of that id
WithoutToast(list, id) == SelectSeq(list, LAMBDA toast : toast.id # id)

\* the timer is started whatever the duration
showTimers_Always(id, duration) == timers \cup {id}

\* if (duration > 0) setTimeout(() => this.remove(id), duration)
showTimers(id, duration) == IF duration > 0 THEN timers \cup {id} ELSE timers

\* what show does to the toast service
showToast(duration) ==
    /\ toastCounter < MaxToasts
    /\ toastCounter' = toastCounter + 1
    /\ toasts' = Append(toasts, [id |-> ToastId(toastCounter + 1),
                                 duration |-> duration])
    /\ timers' = showTimers(ToastId(toastCounter + 1), duration)

show(duration) ==
    /\ showToast(duration)
    /\ Returned("show", ToastId(toastCounter + 1), "none")
    /\ CartIdle
    /\ CheckoutIdle

remove(id) ==
    /\ toasts' = WithoutToast(toasts, id)
    /\ Returned("remove", "void", "none")
    /\ UNCHANGED <<toastCounter, timers>>
    /\ CartIdle
    /\ CheckoutIdle

removeAll ==
    /\ toasts' = <<>>
    /\ Returned("removeAll", "void", "none")
    /\ UNCHANGED <<toastCounter, timers>>
    /\ CartIdle
    /\ CheckoutIdle

\* the callback given to setTimeout runs: this.remove(id); ret notes whether
\* the toast was still shown
TimerFires(id) ==
    /\ id \in timers
    /\ timers' = timers \ {id}
    /\ toasts' = WithoutToast(toasts, id)
    /\ Returned("setTimeout callback",
                IF toasts # WithoutToast(toasts, id) THEN "dismissed" ELSE "void",
                "none")
    /\ UNCHANGED toastCounter
    /\ CartIdle
    /\ CheckoutIdle

NextToast ==
    \/ \E duration \in ToastDurations : show(duration)
    \/ \E id \in ToastIds : remove(id)
    \/ removeAll
    \/ \E id \in ToastIds : TimerFires(id)

\* a timer that was started fires: the event loop runs every due callback
SpecToast ==
    Init /\ [][NextToast]_vars /\ \A id \in ToastIds : WF_vars(TimerFires(id))

----------------------------------------------------------------------------
(* CheckoutService, CheckoutComponent, CartComponent.proceedToCheckout *)

ORDERS_KEY == "app_orders_v1"
CheckoutProducts == {1}

\* 'ord_' + Math.random().toString(36).slice(2, 9): any of the ids, a used
\* one included
OrderIds == {"ord_k3x9a2b", "ord_7hq0zzp"}

PaymentMethods == {"cash", "card"}

\* the toasts are left alone
ToastsIdle == UNCHANGED <<toasts, toastCounter, timers>>

\* the cart service and its storage are left alone
CartServiceIdle ==
    /\ stream = "none"
    /\ probe.phase = "idle"
    /\ emitted' = FALSE
    /\ UNCHANGED <<cartItems, discount, cartState, storage, isBrowser, broken,
                   stream, pending, probe>>

\* only what parses is a list of orders; anything else reads as []
loadOrders(blob) ==
    IF ORDERS_KEY \in broken \/ (blob.blob /\ ~Parses(blob)) THEN <<>>
    ELSE IF blob.blob THEN JSONparse(blob)
    ELSE <<>>

\* the list written back holds the new order alone
StoredOrders_OnlyNewest(order, id) ==
    IF ORDERS_KEY \in broken THEN orders
    ELSE JSONstringify(<<[order EXCEPT !.id = id]>>)

\* orders.unshift(newOrder); localStorage.setItem(...) inside try/catch
StoredOrders(order, id) ==
    IF ORDERS_KEY \in broken THEN orders
    ELSE JSONstringify(<<[order EXCEPT !.id = id]>> \o loadOrders(orders))

createOrderLog ==
    IF ORDERS_KEY \in broken THEN "error: Failed to save orders" ELSE "none"

createOrder(order, id) ==
    /\ orders' = StoredOrders(order, id)
    /\ pendingOrder' = Null

\* the cart onPay works with: the stored snapshot, else the current state
CartForCheckout == IF cartSnapshot # Null THEN cartSnapshot ELSE cartState

\* every cart is taken as having something to order
IsEmptyCart_Never(cart) == FALSE

\* cart.itemCount === 0
IsEmptyCart(cart) == cart.itemCount = 0

baseOrder(cart, paymentMethod) ==
    [id |-> "", items |-> cart.items, subtotal |-> cart.subtotal,
     discountAmount |-> cart.discountAmount, tax |-> cart.tax,
     shippingCost |-> cart.shippingCost, total |-> cart.total,
     paymentMethod |-> paymentMethod, paymentStatus |-> "pending"]

\* CartComponent, shown on /cart, holds the state it was last given
proceedToCheckout ==
    /\ route = "/cart"
    /\ IF cartState.items = <<>>
       THEN /\ showToast(2000)
            /\ UNCHANGED <<cartSnapshot, route>>
       ELSE /\ cartSnapshot' = cartState
            /\ route' = "/checkout"
            /\ ToastsIdle
    /\ Returned("proceedToCheckout", "void", "none")
    /\ UNCHANGED <<orders, pendingOrder, subscribed>>
    /\ CartServiceIdle

\* the router shows the checkout page: CheckoutComponent.ngOnInit subscribes
\* when no snapshot is stored, and the subject hands over its current value
ngOnInit ==
    /\ route # "/checkout"
    /\ route' = "/checkout"
    /\ IF cartSnapshot = Null
       THEN subscribed' = TRUE /\ cartSnapshot' = cartState
       ELSE UNCHANGED <<subscribed, cartSnapshot>>
    /\ Returned("ngOnInit", "void", "none")
    /\ UNCHANGED <<orders, pendingOrder>>
    /\ ToastsIdle
    /\ CartServiceIdle

\* a link of the navigation bar, or the browser's back button
navigate(path) ==
    /\ route # path
    /\ route' = path
    /\ Returned("navigate", "void", "none")
    /\ UNCHANGED <<orders, cartSnapshot, pendingOrder, subscribed>>
    /\ ToastsIdle
    /\ CartServiceIdle

onPay(valid, paymentMethod) ==
    /\ route = "/checkout"
    /\ IF ~valid
       THEN /\ Returned("onPay", "void", "none")
            /\ UNCHANGED <<orders, pendingOrder, route>>
       ELSE IF IsEmptyCart(CartForCheckout)
       THEN /\ route' = "/cart"
            /\ Returned("onPay", "void", "none")
            /\ UNCHANGED <<orders, pendingOrder>>
       ELSE IF paymentMethod = "cash"
       THEN /\ Len(loadOrders(orders)) < MaxOrders
            /\ \E id \in OrderIds :
                 createOrder(baseOrder(CartForCheckout, paymentMethod), id)
            /\ route' = "/orders"
            /\ Returned("onPay", "void", createOrderLog)
       ELSE /\ pendingOrder' = baseOrder(CartForCheckout, paymentMethod)
            /\ route' = "/notfound"
            /\ Returned("onPay", "void", "none")
            /\ UNCHANGED orders
    /\ UNCHANGED <<cartSnapshot, subscribed>>
    /\ ToastsIdle
    /\ CartServiceIdle

\* the checkout page has no control that changes the cart: the shopper
\* changes it from the other pages
OffCheckout == Quiet /\ route # "/checkout"

\* access to the orders key starts or stops throwing
OrdersStorageBreaks ==
    /\ ORDERS_KEY \notin broken
    /\ broken' = broken \cup {ORDERS_KEY}
    /\ UNCHANGED <<cartItems, discount, cartState, storage, isBrowser, emitted,
                   op, ret, console, stream, pending, probe>>
    /\ CheckoutAndToastsIdle

OrdersStorageRecovers ==
    /\ ORDERS_KEY \in broken
    /\ broken' = broken \ {ORDERS_KEY}
    /\ UNCHANGED <<cartItems, discount, cartState, storage, isBrowser, emitted,
                   op, ret, console, stream, pending, probe>>
    /\ CheckoutAndToastsIdle

\* the shopper's steps between the pages, up to the time the first timer of
\* a toast fires
NextCheckout ==
    \/ OffCheckout /\ \E p \in CheckoutProducts : addToCart(p, 1) /\ Listeners
    \/ OffCheckout /\ \E p \in CheckoutProducts : removeFromCart(p) /\ Listeners
    \/ proceedToCheckout
    \/ ngOnInit
    \/ \E path \in {"/cart", "/products"} : navigate(path)
    \/ \E valid \in BOOLEAN : \E paymentMethod \in PaymentMethods :
          onPay(valid, paymentMethod)
    \/ OrdersStorageBreaks
    \/ OrdersStorageRecovers
SpecCheckout == Init /\ [][NextCheckout]_vars

----------------------------------------------------------------------------
(* Vocabulary of the properties *)

Abs(x) == IF x < 0 THEN -x ELSE x

\* r is n/d rounded to two decimal places: a whole number of cents, at most
\* half a cent away from n/d
IsRounded2(n, d, r) == r % Cent = 0 /\ 2 * Abs(r * d - n) <= d * Cent

\* q clamped to [lo, hi]
Clamp(q, lo, hi) == IF q < lo THEN lo ELSE IF q > hi THEN hi ELSE q

HasCap(d) == "maxDiscount" \in DOMAIN d
HasMinimum(d) == "minAmount" \in DOMAIN d
MinimumMet(d, subtotal) == HasMinimum(d) => subtotal >= d.minAmount * Dollar

\* the table entry a typed code names, letter case ignored
Matches(code, d) == toUpperCase(code) = toUpperCase(d.code)
InTable(code) == \E d \in validCodes : Matches(code, d)
EntryOf(code) == CHOOSE d \in validCodes : Matches(code, d)

\* subtotal * value / 100, capped when a cap is present; value when fixed
QuotedAmount(d, subtotal) ==
    IF d.type = "percentage"
    THEN LET pct == (subtotal \div Cent) * d.value
         IN IF HasCap(d) /\ pct > d.maxDiscount * Dollar
            THEN d.maxDiscount * Dollar ELSE pct
    ELSE d.value * Dollar

\* the sum of the quantities of a list of lines, from the last line down
RECURSIVE SumOfQuantities(_)
SumOfQuantities(items) ==
    IF items = <<>> THEN 0
    ELSE items[Len(items)].quantity + SumOfQuantities(SubSeq(items, 1, Len(items) - 1))

\* a snapshot's lines are the given lines, each with its subtotal
SameLines(snapshot, items) ==
    /\ Len(snapshot) = Len(items)
    /\ \A i \in DOMAIN items :
         /\ snapshot[i].id = items[i].id
         /\ snapshot[i].price = items[i].price
         /\ snapshot[i].quantity = items[i].quantity

\* n/d rounded to a whole number, a half going away from zero
RoundHalfAwayFromZero(n, d) ==
    IF n >= 0 THEN (2 * n + d) \div (2 * d)
    ELSE -((2 * (-n) + d) \div (2 * d))

\* the lines of the products other than p, in their order
OtherLines(items, p) == SelectSeq(items, LAMBDA it : it.id # p)

\* the toast of that id is in the list; and with which duration
IsShown(id) == \E i \in DOMAIN toasts : toasts[i].id = id
IsShownFor(id, duration) ==
    \E i \in DOMAIN toasts : toasts[i].id = id /\ toasts[i].duration = duration

\* the orders the orders key holds
PersistedOrders(blob) ==
    IF blob.blob /\ Parses(blob) THEN JSONparse(blob) ELSE <<>>

\* the step in which onPay hands a cash order to createOrder, and the one in
\* which it keeps a card order as the pending order
IsCreateOrderStep ==
    route = "/checkout" /\ op' = "onPay" /\ route' = "/orders"
IsPendingOrderStep ==
    route = "/checkout" /\ op' = "onPay" /\ route' = "/notfound"

\* the order carries the lines and the pricing of that cart state
OrderReflects(order, state) ==
    /\ order.items = state.items
    /\ order.subtotal = state.subtotal
    /\ order.discountAmount = state.discountAmount
    /\ order.tax = state.tax
    /\ order.shippingCost = state.shippingCost
    /\ order.total = state.total

QuantityOf(items, p) == items[FindItem(items, p)].quantity
AllQuantitiesValid == \A i \in 1..Len(cartItems) : cartItems[i].quantity >= 1

----------------------------------------------------------------------------
(* Properties *)

\* C1: in every published CartState, total is
\* subtotal - discountAmount + tax + shippingCost rounded to two decimals.
C1_TotalIsRoundedSum ==
    IsRounded2(cartState.subtotal - cartState.discountAmount + cartState.tax
                 + cartState.shippingCost, 1, cartState.total)

\* a snapshot whose unrounded sum is not a whole number of cents
C1_Witness ==
    /\ cartState.discount # Null
    /\ (cartState.subtotal - cartState.discountAmount + cartState.tax
          + cartState.shippingCost) % Cent # 0

C3_DiscountNeverExceedsSubtotal ==
    AllQuantitiesValid =>
        /\ cartState.discountAmount <= cartState.subtotal
        /\ cartState.total >= 0

\* C4: in every published CartState, discountAmount is 0 when the discount is
\* null, is not marked applied, or the subtotal is below its minimum.
C4_NoDiscountBelowMinimum ==
    (\/ cartState.discount = Null
     \/ ~cartState.discount.applied
     \/ ~MinimumMet(cartState.discount, cartState.subtotal))
        => cartState.discountAmount = 0

\* C5: for an applied discount whose minimum is met, discountAmount is
\* subtotal * value / 100 capped at maxDiscount (percentage) or value (fixed);
\* SAVE20 on subtotal 500 gives 50 and SAVE10 on subtotal 100 gives 10.
C5_DiscountAmountFormula ==
    (/\ cartState.discount # Null
     /\ cartState.discount.applied
     /\ MinimumMet(cartState.discount, cartState.subtotal))
        => /\ cartState.discountAmount
                = QuotedAmount(cartState.discount, cartState.subtotal)
           /\ (cartState.discount.code = SAVE20 /\ cartState.subtotal = 500 * Dollar)
                => cartState.discountAmount = 50 * Dollar
           /\ (cartState.discount.code = SAVE10 /\ cartState.subtotal = 100 * Dollar)
                => cartState.discountAmount = 10 * Dollar

\* SAVE20 applied on a subtotal of 500: the cap decides the amount
C5_Witness ==
    /\ cartState.discount # Null
    /\ cartState.discount.code = SAVE20
    /\ cartState.discount.applied
    /\ cartState.subtotal = 500 * Dollar
    /\ cartState.discountAmount = 50 * Dollar

\* C6: applyDiscount(code) with a code that is not in the table, or whose
\* minAmount exceeds the subtotal, returns false and leaves the lines, the
\* discount, the persisted blobs and the snapshot as they were; FLAT20 on a
\* subtotal of 40 returns false and a null discount stays null.
C6_FailedApplyChangesNothing ==
    [][\A code \in CodeInputs :
         (/\ op' = "applyDiscount"
          /\ applyDiscount(code)
          /\ \/ ~InTable(code)
             \/ ~MinimumMet(EntryOf(code), getSubtotal(cartItems)))
            => /\ ret' = "false"
               /\ UNCHANGED <<cartItems, discount, storage, cartState>>
               /\ (code = FLAT20 /\ cartState.subtotal = 40 * Dollar
                     /\ discount = Null) => cartState'.discount = Null]_vars

\* FLAT20 was refused on a subtotal of 40 and the discount applied before is
\* still attached
C6_Witness ==
    /\ op = "applyDiscount"
    /\ ret = "false"
    /\ ~emitted
    /\ console = "warn: minimum cart total"
    /\ cartState.subtotal = 40 * Dollar
    /\ discount # Null
    /\ cartState.discount = discount
    /\ storage[DISCOUNT_KEY] = JSONstringify(discount)

\* C7: applyDiscount(code) with a code that matches a table entry, letter
\* case ignored, and whose minimum is met returns true; the snapshot it
\* publishes carries that entry with applied = true and the matching
\* discountAmount, whatever discount was attached before.
C7_SuccessfulApplyAttaches ==
    [][\A code \in CodeInputs :
         (/\ op' = "applyDiscount"
          /\ applyDiscount(code)
          /\ InTable(code)
          /\ MinimumMet(EntryOf(code), getSubtotal(cartItems)))
            => /\ ret' = "true"
               /\ discount' = [EntryOf(code) EXCEPT !.applied = TRUE]
               /\ cartState'.discount = discount'
               /\ cartState'.discountAmount
                    = QuotedAmount(EntryOf(code), cartState'.subtotal)]_vars

\* FLAT20 was accepted and is the discount of the snapshot
C7_Witness ==
    /\ op = "applyDiscount"
    /\ ret = "true"
    /\ emitted
    /\ cartState.discount # Null
    /\ cartState.discount.code = FLAT20
    /\ cartState.discount.applied
    /\ cartState.discountAmount = 20 * Dollar

\* C8: addToCart(product, quantity) adds quantity to the line of the product
\* when there is one, without creating a line; otherwise it appends exactly
\* one line whose quantity is the requested quantity clamped to [1, 999].
C8_AddClampsNewLine ==
    [][\A p \in Products \cup BulkProducts :
       \A q \in QtyInputs \cup BulkQtyInputs :
         (op' = "addToCart" /\ addToCart(p, q))
            => IF HasItem(cartItems, p)
               THEN /\ Len(cartItems') = Len(cartItems)
                    /\ QuantityOf(cartItems', p) = QuantityOf(cartItems, p) + q
               ELSE /\ Len(cartItems') = Len(cartItems) + 1
                    /\ cartItems'[Len(cartItems')].id = p
                    /\ cartItems'[Len(cartItems')].quantity
                         = Clamp(q, QTY_MIN, QTY_MAX)]_vars

\* C9: setQuantity(productId, qty) removes the line when qty <= 0 and sets the
\* quantity of a present line to qty clamped to [1, 999] when qty > 0.
C9_SetQuantityClamps ==
    [][\A p \in Products \cup BulkProducts :
       \A q \in QtyInputs \cup BulkQtyInputs :
         (op' = "setQuantity" /\ setQuantity(p, q))
            => IF q <= 0
               THEN ~HasItem(cartItems', p)
               ELSE HasItem(cartItems, p)
                      => /\ HasItem(cartItems', p)
                         /\ QuantityOf(cartItems', p) = Clamp(q, QTY_MIN, QTY_MAX)
                         /\ q = 1000 => QuantityOf(cartItems', p) = 999]_vars

\* setQuantity left the line of the bulk product at 999
C9_Witness ==
    /\ op = "setQuantity"
    /\ emitted
    /\ HasItem(cartItems, 4)
    /\ QuantityOf(cartItems, 4) = 999
    /\ cartState.itemCount = 999

\* C10: decreaseQuantity on a line of quantity 1 removes the line from the
\* lines and from the snapshot, and itemCount drops by 1; on a line of
\* quantity > 1 it lowers the quantity by exactly 1 and keeps the line.
C10_DecreaseRemovesAtOne ==
    [][\A p \in Products \cup BulkProducts :
         (op' = "decreaseQuantity" /\ decreaseQuantity(p) /\ HasItem(cartItems, p))
            => /\ QuantityOf(cartItems, p) = 1
                    => /\ ~HasItem(cartItems', p)
                       /\ ~HasItem(cartState'.items, p)
                       /\ cartState'.itemCount = cartState.itemCount - 1
               /\ QuantityOf(cartItems, p) > 1
                    => /\ HasItem(cartItems', p)
                       /\ QuantityOf(cartItems', p) = QuantityOf(cartItems, p) - 1
                       /\ Len(cartItems') = Len(cartItems)]_vars

\* decreaseQuantity published a cart from which the last line is gone
C10_Witness ==
    /\ op = "decreaseQuantity"
    /\ emitted
    /\ cartItems = <<>>
    /\ cartState.items = <<>>
    /\ cartState.itemCount = 0
    /\ storage[STORAGE_KEY] = JSONstringify(<<>>)

\* C11: after any sequence of cart operations every line of the store and of
\* the snapshot has a quantity of at least 1.
C11_QuantitiesAtLeastOne ==
    /\ \A i \in DOMAIN cartItems : cartItems[i].quantity >= 1
    /\ \A i \in DOMAIN cartState.items : cartState.items[i].quantity >= 1

\* C12: in every published snapshot itemCount is the sum of the quantities of
\* the snapshot's lines, and it is 0 exactly when the snapshot has no lines.
C12_ItemCountIsSumOfQuantities ==
    /\ cartState.itemCount = SumOfQuantities(cartState.items)
    /\ cartState.itemCount = 0 <=> cartState.items = <<>>

C13_RemoveAbsentIsNoOp ==
    probe.phase \in {"removedAbsent", "removedAgain"}
        => /\ cartItems = probe.lines
           /\ discount = probe.discount
           /\ cartState.items = probe.state.items
           /\ cartState.discount = probe.state.discount
           /\ cartState.subtotal = probe.state.subtotal
           /\ cartState.itemCount = probe.state.itemCount
           /\ cartState.discountAmount = probe.state.discountAmount
           /\ cartState.tax = probe.state.tax
           /\ cartState.shippingCost = probe.state.shippingCost
           /\ cartState.total = probe.state.total

\* the second removal of an absent product, from a cart that has a line and
\* a discount
C13_Witness ==
    /\ probe.phase = "removedAgain"
    /\ op = "removeFromCart"
    /\ emitted
    /\ ~HasItem(cartItems, probe.p)
    /\ cartItems # <<>>
    /\ discount # Null
    /\ cartState.total > 0

\* C14: from a cart where P is absent, addToCart(P, 2) followed by
\* removeFromCart(P) restores the previous lines, subtotal and itemCount;
\* from the empty cart the result has subtotal 0 and itemCount 0.
C14_AddThenRemoveRestores ==
    probe.phase = "addedRemoved"
        => /\ cartItems = probe.lines
           /\ cartState.items = probe.state.items
           /\ cartState.subtotal = probe.state.subtotal
           /\ cartState.itemCount = probe.state.itemCount
           /\ probe.lines = <<>>
                => cartState.subtotal = 0 /\ cartState.itemCount = 0

\* the pair of calls made on a cart that already had another line
C14_Witness ==
    /\ probe.phase = "addedRemoved"
    /\ op = "removeFromCart"
    /\ probe.lines # <<>>
    /\ probe.state.subtotal > 0
    /\ cartItems = probe.lines
    /\ ~HasItem(cartItems, probe.p)

\* C19: in a browser where writes succeed, after every mutation the persisted
\* lines and discount equal the ones in memory, and a new CartService built
\* over that storage has the same lines, discount and snapshot.
C19_AutoSaveAndRestore ==
    [][/\ op' # "constructor"
            => /\ loadCart(storage').value = cartItems'
               /\ loadDiscount(storage').value = discount'
       /\ (emitted' /\ op' \in {"addToCart", "removeFromCart", "increaseQuantity",
                                "decreaseQuantity", "setQuantity", "clearCart"})
            => storage'[STORAGE_KEY] = JSONstringify(cartItems')
       /\ (emitted' /\ op' \in {"applyDiscount", "removeDiscount", "clearCart"})
            => storage'[DISCOUNT_KEY] = JSONstringify(discount')
       /\ op' = "constructor"
            => /\ ret' = "void"
               /\ cartItems' = cartItems
               /\ discount' = discount
               /\ cartState' = cartState]_vars

\* a service constructed over a stored cart with a line and a discount
C19_Witness ==
    /\ op = "constructor"
    /\ emitted
    /\ cartItems # <<>>
    /\ discount # Null
    /\ storage[STORAGE_KEY] = JSONstringify(cartItems)
    /\ storage[DISCOUNT_KEY] = JSONstringify(discount)
    /\ cartState.total > 0

\* the in-memory side of a cleared cart
ClearedInMemory ==
    /\ cartItems' = <<>>
    /\ discount' = Null
    /\ cartState'.items = <<>>
    /\ cartState'.discount = Null
    /\ cartState'.discountAmount = 0
    /\ cartState'.subtotal = 0
    /\ cartState'.itemCount = 0

\* C16 as stated: after clearCart, from any state, the store has no lines and
\* no discount, the snapshot is empty with discount null, discountAmount 0,
\* subtotal 0 and itemCount 0, and both persisted blobs reflect the cleared
\* state.
C16_ClearCartClearsEverything ==
    [][(op' = "clearCart" /\ clearCart)
          => /\ ClearedInMemory
             /\ storage'[STORAGE_KEY] = JSONstringify(<<>>)
             /\ storage'[DISCOUNT_KEY] = JSONstringify(Null)]_vars

\* C16 amended: after clearCart the store and the snapshot are cleared as
\* above, and each persisted blob whose write succeeds reflects the cleared
\* state; a blob whose write fails keeps its old content.
C16_ClearCartClearsWhatItCanWrite ==
    [][(op' = "clearCart" /\ clearCart)
          => /\ ClearedInMemory
             /\ storage'[STORAGE_KEY] =
                    IF saveCartFails THEN storage[STORAGE_KEY]
                    ELSE JSONstringify(<<>>)
             /\ storage'[DISCOUNT_KEY] =
                    IF saveDiscountFails THEN storage[DISCOUNT_KEY]
                    ELSE JSONstringify(Null)]_vars

\* clearCart emptied the cart and wrote the discount key while the write of
\* the lines failed and left a stored line behind
C16_Witness ==
    /\ op = "clearCart"
    /\ emitted
    /\ cartItems = <<>>
    /\ discount = Null
    /\ cartState.items = <<>>
    /\ console = "error: saving cart"
    /\ Parses(storage[STORAGE_KEY])
    /\ JSONparse(storage[STORAGE_KEY]) # <<>>
    /\ storage[DISCOUNT_KEY] = JSONstringify(Null)

\* C18: a failed persistence write is swallowed: the operation returns
\* normally, the lines and the discount in memory keep their new values, and
\* the snapshot recomputed from them is still published.
C18_FailedWriteIsSwallowed ==
    [][(broken # {} /\ NextOver(FaultyProducts, QtyInputs)) =>
          /\ \A p \in FaultyProducts : \A q \in QtyInputs :
               (op' = "addToCart" /\ saveCartFails /\ addToCart(p, q))
                  => /\ ret' = "void"
                     /\ emitted'
                     /\ HasItem(cartItems', p)
                     /\ QuantityOf(cartItems', p) =
                           q + IF HasItem(cartItems, p) THEN QuantityOf(cartItems, p)
                               ELSE 0
                     /\ cartState'.itemCount = SumOfQuantities(cartItems')
                     /\ storage' = storage
          /\ (op' \in {"addToCart", "removeFromCart", "increaseQuantity",
                       "decreaseQuantity", "setQuantity"} /\ saveCartFails)
               => /\ ret' = "void"
                  /\ emitted' => /\ cartState' = updateCartState(cartItems', discount')
                                  /\ storage' = storage
          /\ \A p \in FaultyProducts :
               (op' = "removeFromCart" /\ saveCartFails /\ removeFromCart(p))
                  => ~HasItem(cartItems', p) /\ ~HasItem(cartState'.items, p)
          /\ (op' = "applyDiscount" /\ saveDiscountFails /\ ret' = "true")
               => /\ discount' # Null
                  /\ cartState'.discount = discount'
                  /\ emitted'
                  /\ storage' = storage
          /\ (op' = "removeDiscount" /\ saveDiscountFails)
               => /\ ret' = "void"
                  /\ discount' = Null
                  /\ cartState'.discount = Null
                  /\ emitted'
                  /\ storage' = storage
          /\ (op' = "clearCart" /\ (saveCartFails \/ saveDiscountFails))
               => ret' = "void" /\ emitted' /\ ClearedInMemory]_vars

\* addToCart returned normally and published a line that storage refused
C18_Witness ==
    /\ op = "addToCart"
    /\ ret = "void"
    /\ emitted
    /\ console = "error: saving cart"
    /\ STORAGE_KEY \in broken
    /\ storage[STORAGE_KEY] = NoBlob
    /\ HasItem(cartItems, 1)
    /\ QuantityOf(cartItems, 1) = 2
    /\ cartState.itemCount = 2

\* C20: when reading storage at start-up throws or the content cannot be
\* parsed, the constructor returns normally with an empty line list (and no
\* discount when the discount blob fails) and publishes the snapshot of that.
C20_FailedReadDegradesToDefault ==
    [][(op' = "constructor" /\ Constructor
          /\ (ReadThrows(storage, STORAGE_KEY) \/ ReadThrows(storage, DISCOUNT_KEY)))
          => /\ ret' = "void"
             /\ emitted'
             /\ console' \in {"error: loading cart", "error: loading discount"}
             /\ cartState'.itemCount = SumOfQuantities(cartItems')
             /\ cartState'.discount = discount'
             /\ ReadThrows(storage, STORAGE_KEY)
                  => /\ cartItems' = <<>>
                     /\ cartState'.items = <<>>
                     /\ cartState'.subtotal = 0
                     /\ cartState'.itemCount = 0
             /\ ReadThrows(storage, DISCOUNT_KEY)
                  => /\ discount' = Null
                     /\ cartState'.discountAmount = 0]_vars

\* a service constructed over a lines blob that is not JSON while the stored
\* discount was read
C20_Witness ==
    /\ op = "constructor"
    /\ ret = "void"
    /\ emitted
    /\ console = "error: loading cart"
    /\ storage[STORAGE_KEY] = Unparsable
    /\ cartItems = <<>>
    /\ cartState.items = <<>>
    /\ discount # Null
    /\ cartState.discount = discount

\* C17: whenever a subscriber callback of the store runs, on the lines
\* stream, the discount stream or the state stream, the current CartState's
\* lines, discount and totals correspond to the store's current lines and
\* discount.
C17_SubscribersSeeCurrentSnapshot ==
    stream # "none"
        => /\ SameLines(cartState.items, cartItems)
           /\ cartState.discount = discount
           /\ cartState.itemCount = SumOfQuantities(cartItems)
           /\ cartState = updateCartState(cartItems, discount)

\* C22: the tax is the taxable amount (subtotal - discountAmount) times the
\* rate, rounded to two decimals with a half cent going away from zero, also
\* when the taxable amount is negative.
C22_TaxRoundsHalfAwayFromZero ==
    cartState.tax =
        RoundHalfAwayFromZero((cartState.subtotal - cartState.discountAmount)
                                 * TAX_RATE_NUM, TAX_RATE_DEN * Cent) * Cent

\* C27: after any sequence of cart operations every line's quantity is at
\* most 999, also through addToCart on an existing line and through repeated
\* increaseQuantity.
C27_QuantitiesAtMost999 ==
    \A i \in DOMAIN cartItems : cartItems[i].quantity <= 999

\* C28: whenever the cart has no lines and no discount, the published
\* snapshot is the empty-cart template of getEmptyCartState: subtotal 0,
\* itemCount 0, discountAmount 0, tax 0, shippingCost 0 and total 0.
C28_EmptyCartSnapshotIsTemplate ==
    (cartItems = <<>> /\ discount = Null)
        => /\ cartState.items = <<>>
           /\ cartState.subtotal = 0
           /\ cartState.itemCount = 0
           /\ cartState.discountAmount = 0
           /\ cartState.tax = 0
           /\ cartState.shippingCost = 0
           /\ cartState.total = 0

\* C29: starting from an empty cart, the store never holds two lines of the
\* same product id: addToCart of a product that has a line adds to that line.
C29_OneLinePerProduct ==
    \A i, j \in DOMAIN cartItems : cartItems[i].id = cartItems[j].id => i = j

\* addToCart raised an existing line to a quantity that no single call stores
C29_Witness ==
    /\ op = "addToCart"
    /\ emitted
    /\ Len(cartItems) = 1
    /\ cartItems[1].quantity = 11
    /\ cartState.itemCount = 11

\* C30: a cart operation addressed to product P leaves the other lines (their
\* quantity, price and relative order) and the attached discount unchanged;
\* removeDiscount leaves all lines unchanged.
C30_OtherLinesAndDiscountUntouched ==
    [][/\ \A p \in Products \cup BulkProducts :
            (\/ op' = "addToCart"
                  /\ \E q \in QtyInputs \cup BulkQtyInputs : addToCart(p, q)
             \/ op' = "removeFromCart" /\ removeFromCart(p)
             \/ op' = "increaseQuantity" /\ increaseQuantity(p)
             \/ op' = "decreaseQuantity" /\ decreaseQuantity(p)
             \/ op' = "setQuantity"
                  /\ \E q \in QtyInputs \cup BulkQtyInputs : setQuantity(p, q))
               => /\ OtherLines(cartItems', p) = OtherLines(cartItems, p)
                  /\ OtherLines(cartState'.items, p) = OtherLines(cartState.items, p)
                  /\ discount' = discount
                  /\ cartState'.discount = cartState.discount
       /\ (op' = "removeDiscount" /\ removeDiscount)
            => cartItems' = cartItems /\ cartState'.items = cartState.items]_vars

\* increaseQuantity acted on one of three lines of a cart with a discount
C30_Witness ==
    /\ op = "increaseQuantity"
    /\ emitted
    /\ Len(cartItems) = 3
    /\ discount # Null
    /\ cartState.discount = discount
    /\ \E i \in DOMAIN cartItems : cartItems[i].quantity = 2
    /\ \E i \in DOMAIN cartItems : cartItems[i].quantity = 1

\* C26: a published snapshot is immutable: later cart operations never
\* change the line quantities, line subtotals or totals that an observer
\* holding an earlier snapshot reads in it.
C26_HeldSnapshotNeverChanges ==
    probe.phase = "holding"
        => /\ Len(probe.state.items) = Len(probe.read.lines)
           /\ \A i \in DOMAIN probe.state.items :
                LET now == ReadLine(probe.state.items[i])
                IN "detached" \notin DOMAIN now => now = probe.read.lines[i]
           /\ probe.state.subtotal = probe.read.subtotal
           /\ probe.state.itemCount = probe.read.itemCount
           /\ probe.state.total = probe.read.total

\* an observer still holds a snapshot with a line of quantity 1 after
\* increaseQuantity raised that line to 2 in the store
C26_Witness ==
    /\ probe.phase = "holding"
    /\ op = "increaseQuantity"
    /\ emitted
    /\ Len(probe.state.items) = 1
    /\ probe.read.lines[1].quantity = 1
    /\ Len(cartItems) = 1
    /\ cartItems[1].id = probe.state.items[1].id
    /\ cartItems[1].quantity = 2

\* C23: a toast shown with duration > 0 is eventually removed from the list
\* without user action once its timer fires; a toast shown with duration 0
\* leaves the list only by remove(id) or removeAll(); a timer firing for one
\* toast never removes a different toast.
C23_ToastAutoDismiss ==
    /\ \A id \in ToastIds :
          (\E d \in ToastDurations \ {0} : IsShownFor(id, d)) ~> ~IsShown(id)
    /\ [][\A id \in ToastIds :
            /\ TimerFires(id) => ~IsShown(id)'
            /\ (IsShownFor(id, 0) /\ ~IsShown(id)')
                  => op' \in {"remove", "removeAll"}
            /\ TimerFires(id) =>
                  \A other \in ToastIds \ {id} : IsShown(other) => IsShown(other)'
       ]_vars

\* the timer of the second toast dismissed it while the first one, shown with
\* duration 0, stays
C23_Witness ==
    /\ op = "setTimeout callback"
    /\ ret = "dismissed"
    /\ toastCounter = 2
    /\ toasts = <<[id |-> ToastId(1), duration |-> 0]>>
    /\ timers = {}

\* C21 as stated: every createOrder makes the persisted order list one entry
\* longer, the new entry carrying a newly assigned id, with every order
\* stored before still there and unchanged; no other operation changes the
\* list.
C21_EveryCreateOrderGrowsTheList ==
    [][/\ IsCreateOrderStep =>
             /\ Len(PersistedOrders(orders')) = Len(PersistedOrders(orders)) + 1
             /\ Head(PersistedOrders(orders')).id \in OrderIds
             /\ Tail(PersistedOrders(orders')) = PersistedOrders(orders)
       /\ ~IsCreateOrderStep => orders' = orders
      ]_vars

\* C21: a createOrder whose write succeeds puts the new order, under a newly
\* assigned id, in front of the persisted list, which grows by exactly one
\* entry and keeps every order stored before, unchanged and in the same
\* order; a createOrder whose write fails leaves the persisted list as it
\* was; no other operation changes the list.
C21_CreateOrderGrowsTheListWhenWritten ==
    [][/\ (IsCreateOrderStep /\ ORDERS_KEY \notin broken) =>
             /\ Len(PersistedOrders(orders')) = Len(PersistedOrders(orders)) + 1
             /\ Head(PersistedOrders(orders')).id \in OrderIds
             /\ Tail(PersistedOrders(orders')) = PersistedOrders(orders)
       /\ (IsCreateOrderStep /\ ORDERS_KEY \in broken) =>
             /\ orders' = orders
             /\ console' = "error: Failed to save orders"
       /\ ~IsCreateOrderStep => orders' = orders
      ]_vars

\* a second order was written in front of the first
C21_Witness ==
    /\ op = "onPay"
    /\ route = "/orders"
    /\ console = "none"
    /\ Len(PersistedOrders(orders)) = 2
    /\ PersistedOrders(orders)[1].items # PersistedOrders(orders)[2].items

\* C24: the order onPay builds, written by createOrder or kept as the pending
\* order, carries the lines and the pricing the cart has when onPay runs.
C24_OrderReflectsCurrentCart ==
    [][/\ (IsCreateOrderStep /\ ORDERS_KEY \notin broken) =>
             OrderReflects(Head(PersistedOrders(orders')), cartState)
       /\ IsPendingOrderStep => OrderReflects(pendingOrder', cartState)
      ]_vars

====
